---- MODULE Spec2Model ----
(***************************************************************************)
(* Model of system76-power's configuration store (src/config.rs) and of    *)
(* the command router (src/main.rs).                                       *)
(*                                                                         *)
(* A persisted document is a sequence of lines.  A line is a table header  *)
(* ([defaults]), a key/value pair (battery = 'balanced'), a comment, or a  *)
(* torn line that is no TOML at all.  Config_serialize produces the lines  *)
(* the hand-written serializer of config.rs emits; Config_deserialize      *)
(* reads lines the way toml::from_slice and the derived Deserialize        *)
(* implementations do.                                                     *)
(***************************************************************************)
EXTENDS Integers, Sequences, FiniteSets, TLC

(***************************************************************************)
(* Profile (config.rs:308-336)                                             *)
(***************************************************************************)
Profiles == {"Battery", "Balanced", "Performance"}

\* impl From<Profile> for &'static str
ProfileStr(profile) ==
    CASE profile = "Balanced"    -> "balanced"
      [] profile = "Battery"     -> "battery"
      [] profile = "Performance" -> "performance"

\* A bug a refactoring could introduce: two variants share an identifier.
ProfileStr_Collide(profile) ==
    CASE profile = "Balanced"    -> "battery"
      [] profile = "Battery"     -> "battery"
      [] profile = "Performance" -> "performance"

\* A lenient parser: folds case and trims blanks before matching.
Profile_deserialize_Lenient(s) ==
    CASE s \in {"battery", "Battery", "BATTERY", " battery", "battery "}
            -> [ok |-> TRUE, p |-> "Battery"]
      [] s \in {"balanced", "Balanced", "BALANCED", " balanced", "balanced "}
            -> [ok |-> TRUE, p |-> "Balanced"]
      [] s \in {"performance", "Performance", "PERFORMANCE", " performance", "performance "}
            -> [ok |-> TRUE, p |-> "Performance"]
      [] OTHER -> [ok |-> FALSE, p |-> "Balanced"]

\* #[derive(Deserialize)] with #[serde(rename = ...)]: the variant is chosen
\* by an exact match of the renamed tag; anything else is an error.
Profile_deserialize(s) ==
    CASE s = "battery"     -> [ok |-> TRUE, p |-> "Battery"]
      [] s = "balanced"    -> [ok |-> TRUE, p |-> "Balanced"]
      [] s = "performance" -> [ok |-> TRUE, p |-> "Performance"]
      [] OTHER             -> [ok |-> FALSE, p |-> "Balanced"]

Profile_ac_default == "Performance"
Profile_battery_default == "Balanced"

(***************************************************************************)
(* Values and lines of a document                                          *)
(***************************************************************************)
NoV == [t |-> "none", s |-> "", a |-> 0, b |-> 0, c |-> FALSE]
StrV(s) == [t |-> "str", s |-> s, a |-> 0, b |-> 0, c |-> FALSE]
IntV(n) == [t |-> "int", s |-> "", a |-> n, b |-> 0, c |-> FALSE]
BoolV(x) == [t |-> "bool", s |-> "", a |-> 0, b |-> 0, c |-> x]
\* inline table { keyboard = a, screen = b }
BacklightV(keyboard, screen) ==
    [t |-> "backlight", s |-> "", a |-> keyboard, b |-> screen, c |-> FALSE]
\* inline table { min = a, max = b, turbo = c }
PStateV(min, max, turbo) ==
    [t |-> "pstate", s |-> "", a |-> min, b |-> max, c |-> turbo]

Table(name) == [kind |-> "table", name |-> name, val |-> NoV]
KV(key, v) == [kind |-> "kv", name |-> key, val |-> v]
Comment(text) == [kind |-> "comment", name |-> text, val |-> NoV]
Torn == [kind |-> "torn", name |-> "", val |-> NoV]

(***************************************************************************)
(* The aggregate and its compiled-in defaults                              *)
(***************************************************************************)
NoBacklight == [some |-> FALSE, keyboard |-> 0, screen |-> 0]
SomeBacklight(keyboard, screen) ==
    [some |-> TRUE, keyboard |-> keyboard, screen |-> screen]
NoPState == [some |-> FALSE, min |-> 0, max |-> 0, turbo |-> FALSE]
SomePState(min, max, turbo) ==
    [some |-> TRUE, min |-> min, max |-> max, turbo |-> turbo]
NoScript == [some |-> FALSE, path |-> ""]
SomeScript(path) == [some |-> TRUE, path |-> path]

ConfigBacklight_battery == SomeBacklight(0, 10)
ConfigBacklight_balanced == SomeBacklight(50, 40)
ConfigBacklight_performance == SomeBacklight(100, 100)

ConfigPState_battery == SomePState(0, 50, FALSE)
ConfigPState_balanced == SomePState(0, 100, TRUE)
ConfigPState_performance == SomePState(50, 100, TRUE)

ConfigProfile_battery ==
    [backlight |-> ConfigBacklight_battery, pstate |-> ConfigPState_battery,
     script |-> NoScript]
ConfigProfile_balanced ==
    [backlight |-> ConfigBacklight_balanced, pstate |-> ConfigPState_balanced,
     script |-> NoScript]
ConfigProfile_performance ==
    [backlight |-> ConfigBacklight_performance,
     pstate |-> ConfigPState_performance, script |-> NoScript]

ConfigProfiles_default ==
    [battery |-> ConfigProfile_battery, balanced |-> ConfigProfile_balanced,
     performance |-> ConfigProfile_performance]

ConfigDefaults_default ==
    [battery |-> Profile_battery_default, ac |-> Profile_ac_default,
     last_profile |-> Profile_battery_default, experimental |-> FALSE]

DefaultCritical == 25
DefaultNormal == 50
ConfigThresholds_default ==
    [critical |-> DefaultCritical, normal |-> DefaultNormal]

Config_default ==
    [defaults |-> ConfigDefaults_default,
     thresholds |-> ConfigThresholds_default,
     profiles |-> ConfigProfiles_default]

(***************************************************************************)
(* Serialization (the hand-written serializer)                             *)
(***************************************************************************)
\* ConfigDefaults::serialize_toml with ac and battery written the wrong way
\* round.
ConfigDefaults_serialize_toml_Swapped(d) ==
    << Table("defaults"),
       Comment("The default profile that will be set on disconnecting from AC."),
       KV("battery", StrV(ProfileStr(d.ac))),
       Comment("The default profile that will be set on connecting to AC."),
       KV("ac", StrV(ProfileStr(d.battery))),
       Comment("The last profile that was activated"),
       KV("last_profile", StrV(ProfileStr(d.last_profile))),
       Comment("Uncomment to enable extra untested power-saving features"),
       IF d.experimental THEN KV("experimental", BoolV(TRUE))
                         ELSE Comment("experimental = true") >>

ConfigDefaults_serialize_toml(d) ==
    << Table("defaults"),
       Comment("The default profile that will be set on disconnecting from AC."),
       KV("battery", StrV(ProfileStr(d.battery))),
       Comment("The default profile that will be set on connecting to AC."),
       KV("ac", StrV(ProfileStr(d.ac))),
       Comment("The last profile that was activated"),
       KV("last_profile", StrV(ProfileStr(d.last_profile))),
       Comment("Uncomment to enable extra untested power-saving features"),
       IF d.experimental THEN KV("experimental", BoolV(TRUE))
                         ELSE Comment("experimental = true") >>

ConfigThresholds_serialize_toml(t) ==
    << Table("threshold"),
       Comment("Defines what percentage of battery is required to set the profile to 'battery'."),
       KV("crtical", IntV(t.critical)),
       Comment("Defines what percentage of battery is required to revert the critical change."),
       KV("normal", IntV(t.normal)) >>

ConfigBacklight_serialize_toml(bl) ==
    << KV("backlight", BacklightV(bl.keyboard, bl.screen)) >>

ConfigPState_serialize_toml(ps) ==
    << KV("pstate", PStateV(ps.min, ps.max, ps.turbo)) >>

ConfigProfile_serialize_toml(p) ==
    (IF p.backlight.some THEN ConfigBacklight_serialize_toml(p.backlight)
                         ELSE << >>)
    \o (IF p.pstate.some THEN ConfigPState_serialize_toml(p.pstate) ELSE << >>)
    \o (IF p.script.some THEN << KV("battery", StrV(p.script.path)) >>
                         ELSE << Comment("script = '$PATH'") >>)

ConfigProfiles_serialize_toml(ps) ==
    << Table("profiles.battery") >> \o ConfigProfile_serialize_toml(ps.battery)
    \o << Table("profiles.balanced") >>
    \o ConfigProfile_serialize_toml(ps.balanced)
    \o << Table("profiles.performance") >>
    \o ConfigProfile_serialize_toml(ps.performance)

Config_serialize(cfg) ==
    << Comment("This config is automatically generated by system76-power.") >>
    \o ConfigDefaults_serialize_toml(cfg.defaults)
    \o ConfigThresholds_serialize_toml(cfg.thresholds)
    \o ConfigProfiles_serialize_toml(cfg.profiles)

(***************************************************************************)
(* Deserialization (toml::from_slice into the derived Deserialize impls)   *)
(***************************************************************************)
SetMax(S) == CHOOSE x \in S : \A y \in S : y <= x

\* The table a line belongs to: the nearest header above it, the root table
\* ("") when there is none.
TableAt(doc, i) ==
    LET hs == {j \in 1..(i - 1) : doc[j].kind = "table"}
    IN IF hs = {} THEN "" ELSE doc[SetMax(hs)].name

HasTable(doc, name) ==
    \E i \in 1..Len(doc) : doc[i].kind = "table" /\ doc[i].name = name

KeyLines(doc, table, key) ==
    {i \in 1..Len(doc) :
        doc[i].kind = "kv" /\ doc[i].name = key /\ TableAt(doc, i) = table}

HasKey(doc, table, key) == KeyLines(doc, table, key) # {}

ValueOf(doc, table, key) ==
    doc[CHOOSE i \in KeyLines(doc, table, key) : TRUE].val

\* What the TOML parser itself rejects: a line that is no TOML, a table
\* defined twice, a key defined twice in one table.
Toml_syntax_ok(doc) ==
    /\ \A i \in 1..Len(doc) : doc[i].kind # "torn"
    /\ \A i, j \in 1..Len(doc) :
          (i # j /\ doc[i].kind = "table" /\ doc[j].kind = "table")
             => doc[i].name # doc[j].name
    /\ \A i, j \in 1..Len(doc) :
          (i # j /\ doc[i].kind = "kv" /\ doc[j].kind = "kv"
               /\ TableAt(doc, i) = TableAt(doc, j))
             => doc[i].name # doc[j].name

IsU8(n) == n \in 0..255

\* A field of type Profile with #[serde(default = ...)].
Profile_field(doc, table, key, dflt) ==
    IF ~HasKey(doc, table, key) THEN [ok |-> TRUE, p |-> dflt]
    ELSE LET v == ValueOf(doc, table, key)
         IN IF v.t = "str" THEN Profile_deserialize(v.s)
                           ELSE [ok |-> FALSE, p |-> dflt]

\* A bool field with #[serde(default)].
Bool_field(doc, table, key) ==
    IF ~HasKey(doc, table, key) THEN [ok |-> TRUE, b |-> FALSE]
    ELSE LET v == ValueOf(doc, table, key)
         IN IF v.t = "bool" THEN [ok |-> TRUE, b |-> v.c]
                            ELSE [ok |-> FALSE, b |-> FALSE]

\* A u8 field without a default: the key is required.
U8_field(doc, table, key) ==
    IF ~HasKey(doc, table, key) THEN [ok |-> FALSE, n |-> 0]
    ELSE LET v == ValueOf(doc, table, key)
         IN IF v.t = "int" /\ IsU8(v.a) THEN [ok |-> TRUE, n |-> v.a]
                                        ELSE [ok |-> FALSE, n |-> 0]

ConfigDefaults_deserialize(doc) ==
    IF ~HasTable(doc, "defaults")
    THEN [ok |-> TRUE, v |-> ConfigDefaults_default]
    ELSE LET battery == Profile_field(doc, "defaults", "battery",
                                      Profile_battery_default)
             ac == Profile_field(doc, "defaults", "ac", Profile_ac_default)
             last == Profile_field(doc, "defaults", "last_profile",
                                   Profile_battery_default)
             exp == Bool_field(doc, "defaults", "experimental")
         IN [ok |-> battery.ok /\ ac.ok /\ last.ok /\ exp.ok,
             v |-> [battery |-> battery.p, ac |-> ac.p,
                    last_profile |-> last.p, experimental |-> exp.b]]

ConfigThresholds_deserialize(doc) ==
    IF ~HasTable(doc, "thresholds")
    THEN [ok |-> TRUE, v |-> ConfigThresholds_default]
    ELSE LET critical == U8_field(doc, "thresholds", "critical")
             normal == U8_field(doc, "thresholds", "normal")
         IN [ok |-> critical.ok /\ normal.ok,
             v |-> [critical |-> critical.n, normal |-> normal.n]]

\* Option<ConfigBacklight>: an absent key is None.
Backlight_field(doc, table) ==
    IF ~HasKey(doc, table, "backlight") THEN [ok |-> TRUE, v |-> NoBacklight]
    ELSE LET v == ValueOf(doc, table, "backlight")
         IN IF v.t = "backlight" /\ IsU8(v.a) /\ IsU8(v.b)
            THEN [ok |-> TRUE, v |-> SomeBacklight(v.a, v.b)]
            ELSE [ok |-> FALSE, v |-> NoBacklight]

\* Option<ConfigPState>: an absent key is None.
PState_field(doc, table) ==
    IF ~HasKey(doc, table, "pstate") THEN [ok |-> TRUE, v |-> NoPState]
    ELSE LET v == ValueOf(doc, table, "pstate")
         IN IF v.t = "pstate" /\ IsU8(v.a) /\ IsU8(v.b)
            THEN [ok |-> TRUE, v |-> SomePState(v.a, v.b, v.c)]
            ELSE [ok |-> FALSE, v |-> NoPState]

\* Option<PathBuf>: an absent key is None.
Script_field(doc, table) ==
    IF ~HasKey(doc, table, "script") THEN [ok |-> TRUE, v |-> NoScript]
    ELSE LET v == ValueOf(doc, table, "script")
         IN IF v.t = "str" THEN [ok |-> TRUE, v |-> SomeScript(v.s)]
                           ELSE [ok |-> FALSE, v |-> NoScript]

\* One field of ConfigProfiles: the sub-table when present, the profile's
\* compiled-in descriptor when not.
ConfigProfile_deserialize(doc, table, dflt) ==
    IF ~HasTable(doc, table) THEN [ok |-> TRUE, v |-> dflt]
    ELSE LET bl == Backlight_field(doc, table)
             ps == PState_field(doc, table)
             sc == Script_field(doc, table)
         IN [ok |-> bl.ok /\ ps.ok /\ sc.ok,
             v |-> [backlight |-> bl.v, pstate |-> ps.v, script |-> sc.v]]

ConfigProfiles_deserialize(doc) ==
    LET battery == ConfigProfile_deserialize(doc, "profiles.battery",
                                             ConfigProfile_battery)
        balanced == ConfigProfile_deserialize(doc, "profiles.balanced",
                                              ConfigProfile_balanced)
        performance == ConfigProfile_deserialize(doc, "profiles.performance",
                                                 ConfigProfile_performance)
    IN [ok |-> battery.ok /\ balanced.ok /\ performance.ok,
        v |-> [battery |-> battery.v, balanced |-> balanced.v,
               performance |-> performance.v]]

\* A root key named like a section holds a value where a table is expected.
Root_types_ok(doc) ==
    \A key \in {"defaults", "thresholds", "profiles"} : ~HasKey(doc, "", key)

\* toml::from_slice::<Config>: unknown tables and keys are skipped.
Config_deserialize(doc) ==
    LET d == ConfigDefaults_deserialize(doc)
        t == ConfigThresholds_deserialize(doc)
        p == ConfigProfiles_deserialize(doc)
    IN IF Toml_syntax_ok(doc) /\ Root_types_ok(doc) /\ d.ok /\ t.ok /\ p.ok
       THEN [ok |-> TRUE,
             cfg |-> [defaults |-> d.v, thresholds |-> t.v, profiles |-> p.v]]
       ELSE [ok |-> FALSE, cfg |-> Config_default]

(***************************************************************************)
(* The file system under CONFIG_PARENT and the store's operations          *)
(***************************************************************************)
\* dir: CONFIG_PARENT exists; exists: CONFIG_PATH exists; doc: its content.
NoDisk == [dir |-> FALSE, exists |-> FALSE, doc |-> << >>]
Disk(doc) == [dir |-> TRUE, exists |-> TRUE, doc |-> doc]

Prefix(doc, k) == SubSeq(doc, 1, k)

\* What a write_all that fails part-way leaves behind: the first cut lines,
\* and a torn line when the failure fell inside a line.
Partial(bytes, cut, torn) ==
    Prefix(bytes, cut) \o (IF torn THEN << Torn >> ELSE << >>)

\* fs::create_dir(config_parent)
Fs_create_dir(d) == [d EXCEPT !.dir = TRUE]

\* File::create(config_path): creates the file, truncating it when it exists.
File_create(d) == [d EXCEPT !.exists = TRUE, !.doc = << >>]

\* file.write_all(bytes) on the freshly created file
File_write_all(d, bytes) == [d EXCEPT !.doc = d.doc \o bytes]

WriteFailures == {"none", "create_dir", "create", "write_all"}

\* Config::write that drops the result of write_all (let _ = ...).
Config_write_Swallow(d, cfg, fail, cut, torn) ==
    LET d1 == IF ~d.dir THEN Fs_create_dir(d) ELSE d
        d2 == File_create(d1)
        bytes == Config_serialize(cfg)
    IN IF fail = "create_dir" /\ ~d.dir THEN [ok |-> FALSE, disk |-> d]
       ELSE IF fail = "create" THEN [ok |-> FALSE, disk |-> d1]
       ELSE IF fail = "write_all"
            THEN [ok |-> TRUE,
                  disk |-> File_write_all(d2, Partial(bytes, cut, torn))]
       ELSE [ok |-> TRUE, disk |-> File_write_all(d2, bytes)]

\* Config::write(&self): the disk it leaves and whether it returned Ok.  fail
\* names the step that returns an error in this call.
Config_write(d, cfg, fail, cut, torn) ==
    LET d1 == IF ~d.dir THEN Fs_create_dir(d) ELSE d
        d2 == File_create(d1)
        bytes == Config_serialize(cfg)
    IN IF fail = "create_dir" /\ ~d.dir THEN [ok |-> FALSE, disk |-> d]
       ELSE IF fail = "create" THEN [ok |-> FALSE, disk |-> d1]
       ELSE IF fail = "write_all"
            THEN [ok |-> FALSE,
                  disk |-> File_write_all(d2, Partial(bytes, cut, torn))]
       ELSE [ok |-> TRUE, disk |-> File_write_all(d2, bytes)]

\* Config::read(): File::open, read_to_end, toml::from_slice.  ioFail: the
\* open or the read returns an error.
Config_read(d, ioFail) ==
    IF ioFail \/ ~d.exists THEN [ok |-> FALSE, cfg |-> Config_default]
    ELSE Config_deserialize(d.doc)

\* Config::new that "repairs" a document it could not read by writing the
\* defaults over it.
Config_new_Overwrite(d, ioFail, fail, cut, torn) ==
    IF ~d.exists
    THEN LET w == Config_write(d, Config_default, fail, cut, torn)
         IN [cfg |-> Config_default, disk |-> w.disk, path |-> "create",
             ok |-> w.ok, err |-> FALSE]
    ELSE LET r == Config_read(d, ioFail)
         IN IF r.ok
            THEN [cfg |-> r.cfg, disk |-> d, path |-> "read", ok |-> TRUE,
                  err |-> FALSE]
            ELSE [cfg |-> Config_default,
                  disk |-> Config_write(d, Config_default, fail, cut, torn).disk,
                  path |-> "read", ok |-> FALSE, err |-> FALSE]

\* Config::new that gives up when the defaults cannot be persisted.
Config_new_Propagate(d, ioFail, fail, cut, torn) ==
    IF ~d.exists
    THEN LET w == Config_write(d, Config_default, fail, cut, torn)
         IN [cfg |-> Config_default, disk |-> w.disk, path |-> "create",
             ok |-> w.ok, err |-> ~w.ok]
    ELSE LET r == Config_read(d, ioFail)
         IN [cfg |-> IF r.ok THEN r.cfg ELSE Config_default, disk |-> d,
             path |-> "read", ok |-> r.ok, err |-> FALSE]

\* Config::new(): cfg is the aggregate returned, disk the disk it leaves,
\* path the branch taken, ok whether the write (create branch) or the read
\* (read branch) succeeded, err whether an error reached the caller.
Config_new(d, ioFail, fail, cut, torn) ==
    IF ~d.exists
    THEN LET w == Config_write(d, Config_default, fail, cut, torn)
         IN [cfg |-> Config_default, disk |-> w.disk, path |-> "create",
             ok |-> w.ok, err |-> FALSE]
    ELSE LET r == Config_read(d, ioFail)
         IN [cfg |-> IF r.ok THEN r.cfg ELSE Config_default, disk |-> d,
             path |-> "read", ok |-> r.ok, err |-> FALSE]

(***************************************************************************)
(* Documents an administrator may have left at CONFIG_PATH                 *)
(***************************************************************************)
KeepLines(doc, S) ==
    LET F[i \in 0..Len(doc)] ==
            IF i = 0 THEN << >>
            ELSE IF i \in S THEN Append(F[i - 1], doc[i]) ELSE F[i - 1]
    IN F[Len(doc)]

DropKey(doc, table, key) ==
    KeepLines(doc, (1..Len(doc)) \ KeyLines(doc, table, key))

DropTable(doc, name) ==
    KeepLines(doc, {i \in 1..Len(doc) :
        IF doc[i].kind = "table" THEN doc[i].name # name
                                 ELSE TableAt(doc, i) # name})

SetKey(doc, table, key, v) ==
    [i \in 1..Len(doc) |->
        IF i \in KeyLines(doc, table, key) THEN KV(key, v) ELSE doc[i]]

\* A complete document in the layout the deserializer reads, every value
\* different from the compiled-in default of its field.
FullDoc ==
    << Table("defaults"),
       KV("battery", StrV("performance")),
       KV("ac", StrV("balanced")),
       KV("last_profile", StrV("battery")),
       KV("experimental", BoolV(TRUE)),
       Table("thresholds"),
       KV("critical", IntV(10)),
       KV("normal", IntV(20)),
       Table("profiles.battery"),
       KV("backlight", BacklightV(5, 15)),
       KV("pstate", PStateV(10, 60, TRUE)),
       KV("script", StrV("/etc/system76-power/battery.sh")),
       Table("profiles.balanced"),
       KV("backlight", BacklightV(45, 35)),
       KV("pstate", PStateV(5, 90, FALSE)),
       Table("profiles.performance"),
       KV("pstate", PStateV(40, 95, FALSE)),
       KV("script", StrV("/etc/system76-power/performance.sh")) >>

SectionNames ==
    {"defaults", "thresholds", "profiles.battery", "profiles.balanced",
     "profiles.performance"}

FieldNames ==
    {<<"defaults", "battery">>, <<"defaults", "ac">>,
     <<"defaults", "last_profile">>, <<"defaults", "experimental">>,
     <<"thresholds", "critical">>, <<"thresholds", "normal">>}

\* FullDoc with one section, all profile sections, or one field left out.
SparseDocs ==
    {DropTable(FullDoc, n) : n \in SectionNames}
    \cup {DropTable(DropTable(DropTable(FullDoc, "profiles.battery"),
                              "profiles.balanced"), "profiles.performance")}
    \cup {DropKey(FullDoc, f[1], f[2]) : f \in FieldNames}

\* Documents whose threshold pair is out of order or degenerate.
ThresholdDocs ==
    {SetKey(SetKey(FullDoc, "thresholds", "critical", IntV(t[1])),
            "thresholds", "normal", IntV(t[2])) :
        t \in {<<60, 40>>, <<50, 50>>, <<0, 100>>}}

\* Documents toml::from_slice rejects.
BrokenDocs ==
    { << Torn >>,
      Prefix(FullDoc, 6) \o << Torn >>,
      SetKey(FullDoc, "defaults", "battery", StrV("Battery")),
      SetKey(FullDoc, "defaults", "ac", StrV(" balanced")),
      SetKey(FullDoc, "defaults", "last_profile", IntV(1)),
      SetKey(FullDoc, "thresholds", "normal", IntV(300)),
      FullDoc \o << Table("defaults") >> }

\* Documents with content the deserializer skips.
ExtraDocs ==
    { << >>,
      FullDoc \o << Table("fan"), KV("curve", StrV("standard")) >>,
      << KV("version", IntV(2)) >> \o FullDoc }

InitDocs ==
    {FullDoc, Config_serialize(Config_default)}
    \cup SparseDocs \cup ThresholdDocs \cup BrokenDocs \cup ExtraDocs

(***************************************************************************)
(* State                                                                   *)
(***************************************************************************)
VARIABLES
    disk,       \* the file system under CONFIG_PARENT
    mem,        \* the aggregate the control surface holds, once loaded
    last,       \* the latest store operation: its inputs and what it returned
    writer,     \* a persist in progress, step by step
    reader,     \* what the latest read of another process observed
    profileIO,  \* one conversion of a Profile and of a string
    router      \* one invocation of main

vars == <<disk, mem, last, writer, reader, profileIO, router>>

NoPrev == [op |-> "none", path |-> "", ok |-> TRUE]
NoOp ==
    [op |-> "none", path |-> "", ok |-> TRUE, err |-> FALSE,
     ioFail |-> FALSE, fail |-> "none", prev |-> NoPrev]
Summary(l) == [op |-> l.op, path |-> l.path, ok |-> l.ok]

WriterIdle ==
    [pc |-> "idle", cfg |-> Config_default, old |-> NoDisk, pos |-> 0]
ReaderIdle ==
    [has |-> FALSE, seen |-> NoDisk, old |-> NoDisk, new |-> << >>,
     during |-> "idle", ok |-> FALSE]
ProfileIdle ==
    [p |-> "Balanced", s |-> "", idDone |-> FALSE, id |-> "",
     back |-> [ok |-> FALSE, p |-> "Balanced"], parseDone |-> FALSE,
     parsed |-> [ok |-> FALSE, p |-> "Balanced"]]
RouterIdle ==
    [pc |-> "exited", cmd |-> "config", euid |-> 0, verbose |-> FALSE,
     quiet |-> FALSE, logOk |-> TRUE, level |-> "Info",
     ranDaemon |-> FALSE, ranClient |-> FALSE, res |-> "none", exit |-> 0]

\* The places where a failing write_all may stop: every CutStride-th line,
\* MaxCut of them at most.
CutStride == 4
MaxCut == 2
Cuts(bytes) ==
    {c \in 0..(Len(bytes) - 1) : \E k \in 0..MaxCut : c = k * CutStride}

(***************************************************************************)
(* The store, one operation at a time                                      *)
(***************************************************************************)
Init ==
    /\ disk \in {NoDisk, [NoDisk EXCEPT !.dir = TRUE]}
                  \cup {Disk(doc) : doc \in InitDocs}
    /\ mem = [loaded |-> FALSE, cfg |-> Config_default]
    /\ last = NoOp
    /\ writer = WriterIdle
    /\ reader = ReaderIdle
    /\ profileIO = ProfileIdle
    /\ router = RouterIdle

\* An injected failure names a step the call really takes.
WriteInputsOk(d, fail, cut, torn) ==
    /\ fail = "create_dir" => ~d.dir
    /\ fail # "write_all" => cut = 0 /\ ~torn

\* The control surface starts: Config::new().
New ==
    /\ \E ioFail \in BOOLEAN, fail \in WriteFailures, torn \in BOOLEAN :
       \E cut \in Cuts(Config_serialize(Config_default)) :
        /\ WriteInputsOk(disk, fail, cut, torn)
        /\ disk.exists => fail = "none"
        /\ ~disk.exists => ~ioFail
        /\ LET r == Config_new(disk, ioFail, fail, cut, torn)
           IN /\ disk' = r.disk
              /\ mem' = [loaded |-> TRUE, cfg |-> r.cfg]
              /\ last' = [op |-> "new", path |-> r.path, ok |-> r.ok,
                          err |-> r.err, ioFail |-> ioFail, fail |-> fail,
                          prev |-> Summary(last)]
    /\ UNCHANGED <<writer, reader, profileIO, router>>

\* The control surface persists its aggregate: config.write().
Write ==
    /\ mem.loaded
    /\ \E fail \in WriteFailures, torn \in BOOLEAN :
       \E cut \in Cuts(Config_serialize(mem.cfg)) :
        /\ WriteInputsOk(disk, fail, cut, torn)
        /\ LET w == Config_write(disk, mem.cfg, fail, cut, torn)
           IN /\ disk' = w.disk
              /\ mem' = mem
              /\ last' = [op |-> "write", path |-> "", ok |-> w.ok,
                          err |-> ~w.ok, ioFail |-> FALSE, fail |-> fail,
                          prev |-> Summary(last)]
    /\ UNCHANGED <<writer, reader, profileIO, router>>

Next == New \/ Write

Spec == Init /\ [][Next]_vars

(***************************************************************************)
(* Properties of the store                                                 *)
(***************************************************************************)
\* The document at CONFIG_PATH exists but cannot be read or parsed by a load
\* whose open/read outcome is ioFail.
Unloadable(d, ioFail) ==
    d.exists /\ (ioFail \/ ~Config_deserialize(d.doc).ok)

\* C1 (as claimed): parsing the document Config::serialize produces yields
\* the aggregate that was serialized, in every field.  Stated on the program:
\* after a persist that succeeded, the document on disk deserializes to the
\* aggregate that was persisted.
C1_RoundTrip ==
    (last.op = "write" /\ last.ok)
        => Config_deserialize(disk.doc) = [ok |-> TRUE, cfg |-> mem.cfg]

\* C2: a load of a document that exists but cannot be read or parsed returns
\* the compiled-in default aggregate and leaves the disk exactly as it was.
C2_UnloadableLeftUntouched ==
    [][(last'.op = "new" /\ Unloadable(disk, last'.ioFail))
          => (disk' = disk /\ mem'.loaded /\ mem'.cfg = Config_default)]_vars

C2_Witness ==
    /\ last.op = "new" /\ last.path = "read" /\ ~last.ok /\ ~last.ioFail
    /\ disk.exists /\ ~Config_deserialize(disk.doc).ok
    /\ mem.cfg = Config_default

\* C3: with no document on disk and a write that succeeds, a load returns the
\* compiled-in default aggregate and leaves a document on disk; the load that
\* follows it directly takes the read path and returns an aggregate equal in
\* every field to the one the first load returned.
C3_LoadOrCreate ==
    [][/\ (last'.op = "new" /\ ~disk.exists /\ last'.fail = "none")
            => (mem'.cfg = Config_default /\ disk'.exists /\ last'.ok)
       /\ (last.op = "new" /\ last.path = "create" /\ last.ok
              /\ last'.op = "new")
            => (last'.path = "read" /\ mem'.cfg = mem.cfg
                  /\ mem'.cfg = Config_default)]_vars

C3_Witness ==
    /\ last.op = "new" /\ last.path = "read" /\ last.ok /\ ~last.ioFail
    /\ last.prev = [op |-> "new", path |-> "create", ok |-> TRUE]
    /\ mem.cfg = Config_default

\* C4 (as claimed): every aggregate a load returns has
\* thresholds.critical < thresholds.normal; a document whose pair is out of
\* order is rejected, not loaded.
C4_ThresholdsOrdered ==
    (last.op = "new" /\ mem.loaded)
        => mem.cfg.thresholds.critical < mem.cfg.thresholds.normal

\* The value C6 claims for a Profile field, a bool field, a threshold field
\* and a profile sub-section: the document's when present, the per-field
\* compiled-in default when missing.
Claimed_profile(doc, key, dflt) ==
    IF HasKey(doc, "defaults", key)
    THEN Profile_deserialize(ValueOf(doc, "defaults", key).s).p ELSE dflt

Claimed_bool(doc, key) ==
    IF HasKey(doc, "defaults", key) THEN ValueOf(doc, "defaults", key).c
                                    ELSE FALSE

Claimed_u8(doc, key, dflt) ==
    IF HasKey(doc, "thresholds", key) THEN ValueOf(doc, "thresholds", key).a
                                      ELSE dflt

Claimed_section(doc, table, dflt) ==
    IF HasTable(doc, table)
    THEN [backlight |-> Backlight_field(doc, table).v,
          pstate |-> PState_field(doc, table).v,
          script |-> Script_field(doc, table).v]
    ELSE dflt

Claimed_config(doc) ==
    [defaults |->
        [battery |-> Claimed_profile(doc, "battery", Profile_battery_default),
         ac |-> Claimed_profile(doc, "ac", Profile_ac_default),
         last_profile |->
             Claimed_profile(doc, "last_profile", Profile_battery_default),
         experimental |-> Claimed_bool(doc, "experimental")],
     thresholds |->
        [critical |-> Claimed_u8(doc, "critical", DefaultCritical),
         normal |-> Claimed_u8(doc, "normal", DefaultNormal)],
     profiles |->
        [battery |-> Claimed_section(doc, "profiles.battery",
                                     ConfigProfile_battery),
         balanced |-> Claimed_section(doc, "profiles.balanced",
                                      ConfigProfile_balanced),
         performance |-> Claimed_section(doc, "profiles.performance",
                                         ConfigProfile_performance)]]

\* C6 (as claimed): a load of a document that lacks one section or one field
\* succeeds; each missing field holds its compiled-in default and each field
\* present holds the document's value.
C6_MissingFieldsDefaulted ==
    (last.op = "new" /\ last.path = "read" /\ ~last.ioFail
        /\ disk.doc \in SparseDocs)
        => (last.ok /\ mem.cfg = Claimed_config(disk.doc))

\* C9: a load surfaces no error and returns an aggregate; whenever the
\* document is absent, unreadable or unparsable, whether or not persisting the
\* defaults failed, that aggregate is the compiled-in default.
C9_LoadNeverFails ==
    [][(last'.op = "new")
          => /\ ~last'.err /\ mem'.loaded
             /\ (~disk.exists \/ Unloadable(disk, last'.ioFail))
                   => mem'.cfg = Config_default]_vars

C9_Witness ==
    /\ last.op = "new" /\ last.path = "create" /\ ~last.ok
    /\ last.fail \in {"create_dir", "create", "write_all"}
    /\ ~last.err /\ mem.loaded /\ mem.cfg = Config_default

\* C10: a persist that fails at any step returns an error and leaves the
\* in-memory aggregate as it was; a persist of the same aggregate that
\* succeeds after it leaves on disk the document serialized from it.
C10_FailedPersist ==
    [][/\ (last'.op = "write" /\ last'.fail # "none")
            => (last'.err /\ ~last'.ok /\ mem' = mem)
       /\ (last.op = "write" /\ ~last.ok /\ last'.op = "write"
              /\ last'.fail = "none")
            => (last'.ok /\ mem' = mem /\ disk'.exists
                  /\ disk'.doc = Config_serialize(mem.cfg))]_vars

C10_Witness ==
    /\ last.op = "write" /\ last.ok
    /\ last.prev = [op |-> "write", path |-> "", ok |-> FALSE]
    /\ mem.cfg # Config_default
    /\ disk.exists /\ disk.doc = Config_serialize(mem.cfg)

(***************************************************************************)
(* A persist step by step, with a reader in another process                *)
(***************************************************************************)
FullConfig == Config_deserialize(FullDoc).cfg

\* Aggregates the control surface may hold when it persists.
ConcAggregates ==
    {Config_default, FullConfig,
     [Config_default EXCEPT !.defaults.last_profile = "Performance"]}

\* The most lines one write(2) of write_all transfers when it does not
\* transfer all that is left.
WriteChunk == 8

View(d) == [exists |-> d.exists, doc |-> d.doc]

ConcInit ==
    /\ disk \in {NoDisk, Disk(FullDoc)}
                  \cup {Disk(Config_serialize(c)) : c \in ConcAggregates}
    /\ mem = [loaded |-> TRUE, cfg |-> Config_default]
    /\ last = NoOp
    /\ writer = [WriterIdle EXCEPT !.old = disk]
    /\ reader = ReaderIdle
    /\ profileIO = ProfileIdle
    /\ router = RouterIdle

\* config.write() is called on the aggregate the control surface holds.
W_Begin ==
    /\ writer.pc = "idle"
    /\ \E c \in ConcAggregates :
          writer' = [pc |-> "create_dir", cfg |-> c, old |-> disk, pos |-> 0]
    /\ UNCHANGED <<disk, mem, last, reader, profileIO, router>>

\* if !config_parent.exists() { fs::create_dir(config_parent)?; }
W_CreateDir ==
    /\ writer.pc = "create_dir"
    /\ disk' = IF ~disk.dir THEN Fs_create_dir(disk) ELSE disk
    /\ writer' = [writer EXCEPT !.pc = "create"]
    /\ UNCHANGED <<mem, last, reader, profileIO, router>>

\* let mut file = File::create(config_path)?;
W_Create ==
    /\ writer.pc = "create"
    /\ disk' = File_create(disk)
    /\ writer' = [writer EXCEPT !.pc = "write_all", !.pos = 0]
    /\ UNCHANGED <<mem, last, reader, profileIO, router>>

\* file.write_all(&self.serialize())?: one write(2) of the loop in write_all.
W_WriteAll ==
    /\ writer.pc = "write_all"
    /\ LET bytes == Config_serialize(writer.cfg)
           rest == Len(bytes) - writer.pos
       IN \E n \in {rest, IF rest < WriteChunk THEN rest ELSE WriteChunk} :
            /\ disk' = File_write_all(
                          disk, SubSeq(bytes, writer.pos + 1, writer.pos + n))
            /\ writer' = [writer EXCEPT
                            !.pos = writer.pos + n,
                            !.pc = IF n = rest THEN "idle" ELSE "write_all"]
    /\ UNCHANGED <<mem, last, reader, profileIO, router>>

\* Another process reads the document: Config::read().
R_Read ==
    /\ reader' = [has |-> TRUE, seen |-> disk,
                  old |-> IF writer.pc = "idle" THEN disk ELSE writer.old,
                  new |-> IF writer.pc = "idle" THEN disk.doc
                          ELSE Config_serialize(writer.cfg),
                  during |-> writer.pc,
                  ok |-> Config_read(disk, FALSE).ok]
    /\ UNCHANGED <<disk, mem, last, writer, profileIO, router>>

ConcNext == W_Begin \/ W_CreateDir \/ W_Create \/ W_WriteAll \/ R_Read

SpecConc == ConcInit /\ [][ConcNext]_vars

\* C5 (as claimed): a read interleaved with the steps of a persist sees the
\* complete document as it was before the persist or the complete document
\* the persist writes, never an empty or truncated one.
C5_NoPartialRead ==
    reader.has
        => \/ View(reader.seen) = View(reader.old)
           \/ (reader.seen.exists /\ reader.seen.doc = reader.new)

(***************************************************************************)
(* Profile and its identifiers                                             *)
(***************************************************************************)
CanonicalIds == {"battery", "balanced", "performance"}

\* Strings handed to the deserializer of Profile.
ProfileInputs ==
    CanonicalIds
    \cup {"Battery", "Balanced", "Performance", "BATTERY", "BALANCED",
          "PERFORMANCE", " battery", "battery ", " balanced", "balanced ",
          " performance", "performance ", "", "power-saver", "powersaver",
          "PowerSaver", "high-performance", "balance", "batteryy"}

ProfileInit ==
    /\ disk = NoDisk
    /\ mem = [loaded |-> FALSE, cfg |-> Config_default]
    /\ last = NoOp
    /\ writer = WriterIdle
    /\ reader = ReaderIdle
    /\ \E p \in Profiles, s \in ProfileInputs :
          profileIO = [ProfileIdle EXCEPT !.p = p, !.s = s]
    /\ router = RouterIdle

\* <&'static str>::from(profile), and the identifier read back.
P_Identifier ==
    /\ ~profileIO.idDone
    /\ profileIO' = [profileIO EXCEPT
                        !.idDone = TRUE,
                        !.id = ProfileStr(profileIO.p),
                        !.back = Profile_deserialize(ProfileStr(profileIO.p))]
    /\ UNCHANGED <<disk, mem, last, writer, reader, router>>

\* A string is deserialized as a Profile.
P_Parse ==
    /\ ~profileIO.parseDone
    /\ profileIO' = [profileIO EXCEPT
                        !.parseDone = TRUE,
                        !.parsed = Profile_deserialize(profileIO.s)]
    /\ UNCHANGED <<disk, mem, last, writer, reader, router>>

ProfileNext == P_Identifier \/ P_Parse

SpecProfile == ProfileInit /\ [][ProfileNext]_vars

\* C7: the identifiers of the three variants are exactly battery, balanced
\* and performance, one per variant; the identifier of a variant parses back
\* to that variant; a string parses if and only if it is one of the three
\* identifiers, and then to the variant it names.
C7_ProfileBijection ==
    /\ profileIO.idDone
          => /\ profileIO.id \in CanonicalIds
             /\ profileIO.back = [ok |-> TRUE, p |-> profileIO.p]
             /\ \A q \in Profiles :
                   ProfileStr(q) = profileIO.id => q = profileIO.p
    /\ profileIO.parseDone
          => /\ profileIO.parsed.ok <=> profileIO.s \in CanonicalIds
             /\ profileIO.parsed.ok
                   => /\ profileIO.parsed.p \in Profiles
                      /\ ProfileStr(profileIO.parsed.p) = profileIO.s

C7_Witness ==
    /\ profileIO.idDone /\ profileIO.parseDone
    /\ profileIO.p = "Performance" /\ profileIO.id = "performance"
    /\ profileIO.s = "Battery" /\ ~profileIO.parsed.ok

(***************************************************************************)
(* The command router (main)                                               *)
(***************************************************************************)
Commands == {"config", "daemon", "fan-curve", "profile", "graphics"}

RootUid == 0
UnprivilegedUid == 1000

\* The level handed to logging::setup_logging.
LevelFilter(verbose, quiet) ==
    IF verbose THEN "Debug" ELSE IF quiet THEN "Off" ELSE "Info"

\* The match with the privilege check dropped.
Route_NoPrivilegeCheck(cmd, euid) ==
    IF cmd = "daemon" THEN "daemon" ELSE "client"

\* match matches.subcommand(): what main runs for a command and an
\* effective uid.
Route(cmd, euid) ==
    IF cmd = "daemon"
    THEN IF euid = RootUid THEN "daemon" ELSE "denied"
    ELSE "client"

\* match res: main returns on Ok, process::exit(1) on Err.
ExitCode(res) == IF res = "ok" THEN 0 ELSE 1

MainInit ==
    /\ disk = NoDisk
    /\ mem = [loaded |-> FALSE, cfg |-> Config_default]
    /\ last = NoOp
    /\ writer = WriterIdle
    /\ reader = ReaderIdle
    /\ profileIO = ProfileIdle
    /\ \E cmd \in Commands, euid \in {RootUid, UnprivilegedUid},
          verbose \in BOOLEAN, quiet \in BOOLEAN, logOk \in BOOLEAN :
          /\ ~(verbose /\ quiet)
          /\ router = [pc |-> "logging", cmd |-> cmd, euid |-> euid,
                       verbose |-> verbose, quiet |-> quiet, logOk |-> logOk,
                       level |-> "Info", ranDaemon |-> FALSE, ranClient |-> FALSE,
                       res |-> "none", exit |-> 0]

\* logging::setup_logging(level); on Err: eprintln, process::exit(1).
M_SetupLogging ==
    /\ router.pc = "logging"
    /\ LET level == LevelFilter(router.verbose, router.quiet)
       IN router' =
            IF router.logOk
            THEN [router EXCEPT !.pc = "route", !.level = level]
            ELSE [router EXCEPT !.pc = "exited", !.level = level, !.exit = 1]
    /\ UNCHANGED <<disk, mem, last, writer, reader, profileIO>>

\* The match on the subcommand: daemon::daemon is entered, or the error
\* "must be run as root" is the result, or client::client is entered.
M_Route ==
    /\ router.pc = "route"
    /\ LET to == Route(router.cmd, router.euid)
       IN router' =
            CASE to = "daemon" ->
                    [router EXCEPT !.pc = "daemon", !.ranDaemon = TRUE]
              [] to = "denied" ->
                    [router EXCEPT !.pc = "result", !.res = "err"]
              [] to = "client" ->
                    [router EXCEPT !.pc = "client", !.ranClient = TRUE]
    /\ UNCHANGED <<disk, mem, last, writer, reader, profileIO>>

\* daemon::daemon(...) returns.
M_DaemonReturns ==
    /\ router.pc = "daemon"
    /\ \E r \in {"ok", "err"} :
          router' = [router EXCEPT !.pc = "result", !.res = r]
    /\ UNCHANGED <<disk, mem, last, writer, reader, profileIO>>

\* client::client(...) returns.
M_ClientReturns ==
    /\ router.pc = "client"
    /\ \E r \in {"ok", "err"} :
          router' = [router EXCEPT !.pc = "result", !.res = r]
    /\ UNCHANGED <<disk, mem, last, writer, reader, profileIO>>

\* match res { Ok(()) => (), Err(err) => { error!(..); process::exit(1) } }
M_Exit ==
    /\ router.pc = "result"
    /\ router' = [router EXCEPT !.pc = "exited", !.exit = ExitCode(router.res)]
    /\ UNCHANGED <<disk, mem, last, writer, reader, profileIO>>

MainNext ==
    M_SetupLogging \/ M_Route \/ M_DaemonReturns \/ M_ClientReturns \/ M_Exit

SpecMain == MainInit /\ [][MainNext]_vars

\* C8: main never runs both modes, and a mode once entered stays the one
\* chosen; the daemon runs only for the daemon command with effective uid 0;
\* the daemon command without the privilege runs neither mode and exits with
\* status 1; every other command runs the client and never the daemon; the
\* exit status is 0 exactly when the mode that ran returned success.
C8_RouterModes ==
    /\ [](/\ ~(router.ranDaemon /\ router.ranClient)
          /\ router.ranDaemon
                => (router.cmd = "daemon" /\ router.euid = RootUid)
          /\ router.ranClient => router.cmd # "daemon"
          /\ (router.cmd = "daemon" /\ router.euid # RootUid
                 /\ router.pc = "exited")
                => (~router.ranDaemon /\ ~router.ranClient /\ router.exit = 1)
          /\ (router.cmd # "daemon"
                 /\ router.pc \in {"client", "result"})
                => (router.ranClient /\ ~router.ranDaemon)
          /\ router.pc = "exited"
                => (router.exit = 0
                      <=> (router.res = "ok"
                             /\ (router.ranDaemon \/ router.ranClient))))
    /\ [][/\ router.ranDaemon => router'.ranDaemon
          /\ router.ranClient => router'.ranClient
          /\ router'.cmd = router.cmd]_vars

C8_Witness ==
    /\ router.pc = "exited" /\ router.logOk
    /\ router.cmd = "daemon" /\ router.euid = UnprivilegedUid
    /\ ~router.ranDaemon /\ ~router.ranClient
    /\ router.res = "err" /\ router.exit = 1

====
